---- MODULE Spec2Model ----
(***************************************************************************)
(* Model of python/ch8/8.4-forward-and-backward-pass.ipynb: the forward    *)
(* pass, the loss and the hand-written backward pass of an L-layer sigmoid *)
(* network over torch tensors.                                             *)
(*                                                                         *)
(* A tensor is a 2-d matrix of fixed-point numbers (an integer n stands    *)
(* for n / One).  Every torch operation is modelled with its shape rules   *)
(* (inner dimension of matmul, broadcasting of the elementwise operators)  *)
(* and raises ShapeMismatch (torch's RuntimeError) when they are violated; *)
(* an operand that is already ShapeMismatch propagates, as an exception    *)
(* does.                                                                   *)
(***************************************************************************)
EXTENDS Integers, Sequences, FiniteSets, TLC

VARIABLES x, y, W, b,            \* the tensors of the demo cell
          seed,                  \* the random draw behind their values
          pc,                    \* position inside forward_backward
          L, l, a, loss,         \* locals of forward_backward
          deltas, W_grads, b_grads,
          ret,                   \* what the last finished call returned
          memo                   \* results seen per draw (history variable)

\* python/ch8/8.5-training-a-neural-network.ipynb: the training loop
VARIABLES X_norm, y_norm,        \* the normalised data set
          w,                     \* nn.parameters()
          grad,                  \* their .grad
          buf,                   \* the optimizer's momentum buffer
          it, tpc,               \* loop variable i, position in the loop
          y_out, mse,            \* y_out and mse_loss of the iteration
          order,                 \* statements run in this iteration (history)
          g_i,                   \* gradient of this iteration's loss (history)
          w_prev,                \* parameters before the last update (history)
          buf_prev,              \* momentum buffer before the last update (history)
          updates                \* weight updates made so far (history)

train == <<X_norm, y_norm, w, grad, buf, it, tpc, y_out, mse, order, g_i, w_prev,
           buf_prev, updates>>

vars == <<x, y, W, b, seed, pc, L, l, a, loss, deltas, W_grads, b_grads, ret, memo,
          train>>

inputs == <<x, y, W, b>>
locals == <<L, l, a, loss, deltas, W_grads, b_grads>>

----------------------------------------------------------------------------
(* Bounds of the model. *)
MaxLayers == 2        \* number of layers, L + 1
MaxDim == 2           \* largest number of units of a layer / of the input
NumSeeds == 2         \* number of random draws

----------------------------------------------------------------------------
(* Fixed-point numbers. *)

\* sigmoid(z) >= (k - 1/2) / 8 exactly when z >= SigmoidThresholds[k] / 8
SigmoidThresholds == <<-21, -11, -6, -2, 3, 7, 12, 22>>

\* the fixed-point representation of 1.0
One == Len(SigmoidThresholds)

\* division rounded to nearest, symmetric around 0
RoundDiv(n, d) ==
    IF n >= 0 THEN (2 * n + d) \div (2 * d) ELSE -((2 * (-n) + d) \div (2 * d))

FMul(p, q) == RoundDiv(p * q, One)

Max(p, q) == IF p >= q THEN p ELSE q

----------------------------------------------------------------------------
(* Tensors. *)

ShapeMismatch == [err |-> TRUE, m |-> <<>>]

\* Python's None, the placeholder of the pre-allocated lists
None == [err |-> FALSE, m |-> <<>>]

Mk(r, c, f(_, _)) == [err |-> FALSE, m |-> [i \in 1..r |-> [j \in 1..c |-> f(i, j)]]]

Rows(t) == Len(t.m)
Cols(t) == IF Len(t.m) = 0 THEN 0 ELSE Len(t.m[1])
Shape(t) == <<Rows(t), Cols(t)>>

\* the element of t that broadcasting puts at (i, j)
At(t, i, j) == t.m[IF Rows(t) = 1 THEN 1 ELSE i][IF Cols(t) = 1 THEN 1 ELSE j]

\* torch's broadcasting rule on one dimension, and on a 2-d shape
DimOK(p, q) == p = q \/ p = 1 \/ q = 1
Broadcastable(s, t) == DimOK(s[1], t[1]) /\ DimOK(s[2], t[2])
Broadcast(s, t) == <<Max(s[1], t[1]), Max(s[2], t[2])>>

Elementwise(op(_, _), s, t) ==
    IF s.err \/ t.err \/ ~Broadcastable(Shape(s), Shape(t))
    THEN ShapeMismatch
    ELSE Mk(Max(Rows(s), Rows(t)), Max(Cols(s), Cols(t)),
            LAMBDA i, j: op(At(s, i, j), At(t, i, j)))

Pointwise(f(_), t) ==
    IF t.err THEN ShapeMismatch ELSE Mk(Rows(t), Cols(t), LAMBDA i, j: f(t.m[i][j]))

\* mutant of add: an addition that does not broadcast
add_strict(s, t) ==
    IF s.err \/ t.err \/ Shape(s) # Shape(t)
    THEN ShapeMismatch
    ELSE Mk(Rows(s), Cols(s), LAMBDA i, j: s.m[i][j] + t.m[i][j])

add(s, t) == Elementwise(LAMBDA p, q: p + q, s, t)
sub(s, t) == Elementwise(LAMBDA p, q: p - q, s, t)
mul(s, t) == Elementwise(FMul, s, t)

\* 1 - t
one_minus(t) == Pointwise(LAMBDA p: One - p, t)

\* mutant of T: the transpose is forgotten
T_forgotten(t) == t

\* t.T
T(t) == IF t.err THEN ShapeMismatch ELSE Mk(Cols(t), Rows(t), LAMBDA i, j: t.m[j][i])

RECURSIVE Dot(_, _, _, _, _)
Dot(s, t, i, j, k) ==
    IF k = 0 THEN 0 ELSE Dot(s, t, i, j, k - 1) + FMul(s.m[i][k], t.m[k][j])

\* mutant of matmul: the inner dimensions are not compared, the shorter wins
matmul_unchecked(s, t) ==
    IF s.err \/ t.err
    THEN ShapeMismatch
    ELSE Mk(Rows(s), Cols(t),
            LAMBDA i, j: Dot(s, t, i, j, IF Cols(s) <= Rows(t) THEN Cols(s) ELSE Rows(t)))

\* torch.matmul on 2-d tensors
matmul(s, t) ==
    IF s.err \/ t.err \/ Cols(s) # Rows(t)
    THEN ShapeMismatch
    ELSE Mk(Rows(s), Cols(t), LAMBDA i, j: Dot(s, t, i, j, Cols(s)))

\* torch.sigmoid on one element
sigmoid(z) == Cardinality({k \in 1..Len(SigmoidThresholds) : SigmoidThresholds[k] <= z})

\* torch.pow(t, 2)
pow2(t) == Pointwise(LAMBDA p: FMul(p, p), t)

\* 1./ 2 * t
half(t) == Pointwise(LAMBDA p: RoundDiv(p, 2), t)

\* list[i] with Python's indexing: a negative index counts from the end
Index(list, i) == IF i >= 0 THEN list[i + 1] ELSE list[Len(list) + i + 1]

----------------------------------------------------------------------------
(* The functions of the notebook. *)

Z(x_, W_l, b_l) == add(matmul(W_l, x_), b_l)

A(z_l) == Pointwise(sigmoid, z_l)

\* mutant of ForwardLoop: range(0, L), the last layer is never applied
RECURSIVE ForwardLoop_short(_, _, _, _)
ForwardLoop_short(a_l, W_, b_, k) ==
    IF k > Len(W_) - 2 THEN a_l
    ELSE ForwardLoop_short(A(Z(a_l, Index(W_, k), Index(b_, k))), W_, b_, k + 1)

RECURSIVE ForwardLoop(_, _, _, _)
ForwardLoop(a_l, W_, b_, k) ==
    IF k > Len(W_) - 1 THEN a_l
    ELSE ForwardLoop(A(Z(a_l, Index(W_, k), Index(b_, k))), W_, b_, k + 1)

forward(x_, W_, b_) == ForwardLoop(x_, W_, b_, 0)

\* mutant of mse_loss: the difference is not squared
mse_loss_unsquared(a_L, y_) == half(sub(a_L, y_))

mse_loss(a_L, y_) == half(pow2(sub(a_L, y_)))

----------------------------------------------------------------------------
(* The demo cell: torch.randn tensors of the chosen shapes. *)

RandnValues == <<-One, -(One \div 2), 0, One \div 2, One>>

randn(sd, id, r, c) ==
    Mk(r, c, LAMBDA i, j:
        RandnValues[((sd + (sd + id) * (i + 2 * j) + 2 * id) % Len(RandnValues)) + 1])

\* units[0] is the input's size, units[k] the number of units of layer k - 1
UnitsOf(n) == [0..n -> 1..MaxDim]

Shapes == (1..MaxDim) \X (1..MaxDim)

\* the weights' shapes: (units_l, units_{l-1}), at most one with other columns
WShapesOf(n, units) ==
    {ws \in [1..n -> Shapes] :
        /\ \A k \in 1..n : ws[k][1] = units[k]
        /\ Cardinality({k \in 1..n : ws[k][2] # units[k - 1]}) <= 1}

\* the biases' shapes: (units_l, 1), at most one of another shape
BShapesOf(n, units) ==
    {bs \in [1..n -> Shapes] :
        Cardinality({k \in 1..n : bs[k] # <<units[k], 1>>}) <= 1}

WOf(sd, ws) == [k \in 1..Len(ws) |-> randn(sd, 2 * k, ws[k][1], ws[k][2])]
BOf(sd, bs) == [k \in 1..Len(bs) |-> randn(sd, 2 * k + 1, bs[k][1], bs[k][2])]

\* y has the shape of the last activation (of the last layer when there is none)
YOf(sd, x_, W_, b_) ==
    LET out == forward(x_, W_, b_)
    IN  IF out.err THEN randn(sd, 1, Rows(W_[Len(W_)]), 1)
        ELSE randn(sd, 1, Rows(out), Cols(out))

\* `draw` remembers which draw of the inputs the call was made with
NoRet == [kind |-> "none", draw |-> 0, raised |-> FALSE, out |-> None, loss |-> None,
          W_grads |-> <<>>, b_grads |-> <<>>]

Raised(kind) == [NoRet EXCEPT !.kind = kind, !.draw = seed, !.raised = TRUE]

NoMemo == [s \in 1..NumSeeds |-> NoRet]

Fresh ==
    /\ pc = "idle"
    /\ L = 0 /\ l = 0 /\ a = <<>> /\ loss = None
    /\ deltas = <<>> /\ W_grads = <<>> /\ b_grads = <<>>
    /\ ret = NoRet

\* an optional tensor that is still None
Unset == [set |-> FALSE, v |-> 0]

\* an optional tensor holding v
Holding(v) == [set |-> TRUE, v |-> v]

\* the training notebook has not been run
TrainNotStarted ==
    /\ tpc = "off"
    /\ X_norm = 0 /\ y_norm = 0 /\ w = 0
    /\ grad = Unset /\ buf = Unset
    /\ it = -1 /\ y_out = 0 /\ mse = 0
    /\ order = <<>> /\ g_i = 0 /\ w_prev = 0 /\ buf_prev = Unset /\ updates = 0

Draw(sd, units, ws, bs) ==
    /\ seed = sd
    /\ x = randn(sd, 0, units[0], 1)
    /\ W = WOf(sd, ws)
    /\ b = BOf(sd, bs)
    /\ y = YOf(sd, x, W, b)

Init ==
    /\ \E n \in 1..MaxLayers : \E units \in UnitsOf(n) :
       \E ws \in WShapesOf(n, units) : \E bs \in BShapesOf(n, units) :
       \E sd \in 1..NumSeeds : Draw(sd, units, ws, bs)
    /\ Fresh
    /\ memo = NoMemo
    /\ TrainNotStarted

----------------------------------------------------------------------------
(* forward(x, W, b), called from the top level. *)

Call_forward ==
    /\ pc = "idle"
    /\ LET out == forward(x, W, b)
       IN  ret' = IF out.err THEN Raised("forward")
                  ELSE [NoRet EXCEPT !.kind = "forward", !.draw = seed, !.out = out]
    /\ UNCHANGED <<train, inputs, seed, pc, locals, memo>>

(* forward_backward(x, y, W, b), one action per statement group. *)

\* an exception leaves the call: nothing is returned, the locals are dropped
\* where they stand
Raise ==
    /\ pc' = "idle"
    /\ ret' = Raised("forward_backward")

\* mutant of fb_begin: a cache that is already full is kept and the forward
\* sweep is skipped
fb_begin_cached ==
    /\ pc = "idle"
    /\ pc' = "sweep"
    /\ L' = Len(W) - 1
    /\ a' = IF Len(a) = Len(W) THEN a ELSE <<>>
    /\ l' = Len(a')
    /\ ret' = NoRet
    /\ UNCHANGED <<train, inputs, seed, loss, deltas, W_grads, b_grads, memo>>

\* L = len(W) - 1; a = []
fb_begin ==
    /\ pc = "idle"
    /\ pc' = "sweep"
    /\ L' = Len(W) - 1
    /\ a' = <<>>
    /\ l' = 0
    /\ ret' = NoRet
    /\ UNCHANGED <<train, inputs, seed, loss, deltas, W_grads, b_grads, memo>>

\* mutant of a_prev: layer 1 is still fed the input
a_prev_late(k) == IF k <= 1 THEN x ELSE Index(a, k - 1)

\* the activation the forward sweep feeds to layer k
a_prev(k) == IF k = 0 THEN x ELSE Index(a, k - 1)

\* one iteration of the forward sweep
fb_sweep ==
    /\ pc = "sweep"
    /\ l <= L
    /\ LET a_l == A(Z(a_prev(l), Index(W, l), Index(b, l)))
       IN  IF a_l.err
           THEN Raise /\ UNCHANGED <<l, a>>
           ELSE a' = Append(a, a_l) /\ l' = l + 1 /\ UNCHANGED <<pc, ret>>
    /\ UNCHANGED <<train, inputs, seed, L, loss, deltas, W_grads, b_grads, memo>>

NoneList(n) == [k \in 1..n |-> None]

\* loss = mse_loss(a[L], y) and the three lists of None
fb_loss ==
    /\ pc = "sweep"
    /\ l > L
    /\ LET v == mse_loss(Index(a, L), y)
       IN  IF v.err
           THEN Raise /\ UNCHANGED <<loss, deltas, W_grads, b_grads>>
           ELSE /\ loss' = v
                /\ deltas' = NoneList(L + 1)
                /\ W_grads' = NoneList(L + 1)
                /\ b_grads' = NoneList(L + 1)
                /\ pc' = "last"
                /\ UNCHANGED ret
    /\ UNCHANGED <<train, inputs, seed, L, l, a, memo>>

\* list[i] = v
Store(list, i, v) == [list EXCEPT ![i + 1] = v]

\* the activation whose transpose multiplies deltas[k]
a_grad(k) == Index(a, k - 1)

\* the gradients of the last layer
fb_last ==
    /\ pc = "last"
    /\ LET a_L == Index(a, L)
           d == mul(mul(sub(a_L, y), a_L), one_minus(a_L))
           g == matmul(d, T(a_grad(L)))
       IN  IF d.err \/ g.err
           THEN Raise /\ UNCHANGED <<l, deltas, W_grads, b_grads>>
           ELSE /\ deltas' = Store(deltas, L, d)
                /\ W_grads' = Store(W_grads, L, g)
                /\ b_grads' = Store(b_grads, L, d)
                /\ l' = L - 1
                /\ pc' = "back"
                /\ UNCHANGED ret
    /\ UNCHANGED <<train, inputs, seed, L, a, loss, memo>>

\* one iteration of the backward sweep
fb_back ==
    /\ pc = "back"
    /\ l >= 0
    /\ LET a_l == Index(a, l)
           d == mul(mul(matmul(T(Index(W, l + 1)), Index(deltas, l + 1)), a_l),
                    one_minus(a_l))
           g == matmul(d, T(a_grad(l)))
       IN  IF d.err \/ g.err
           THEN Raise /\ UNCHANGED <<l, deltas, W_grads, b_grads>>
           ELSE /\ deltas' = Store(deltas, l, d)
                /\ W_grads' = Store(W_grads, l, g)
                /\ b_grads' = Store(b_grads, l, d)
                /\ l' = l - 1
                /\ UNCHANGED <<pc, ret>>
    /\ UNCHANGED <<train, inputs, seed, L, a, loss, memo>>

\* return loss, W_grads, b_grads
fb_return ==
    /\ pc = "back"
    /\ l < 0
    /\ pc' = "idle"
    /\ ret' = [NoRet EXCEPT !.kind = "forward_backward", !.draw = seed,
                            !.out = Index(a, L), !.loss = loss,
                            !.W_grads = W_grads, !.b_grads = b_grads]
    /\ memo' = IF memo[seed] = NoRet THEN [memo EXCEPT ![seed] = ret'] ELSE memo
    /\ UNCHANGED <<train, inputs, seed, locals>>

forward_backward ==
    fb_begin \/ fb_sweep \/ fb_loss \/ fb_last \/ fb_back \/ fb_return

Next == Call_forward \/ forward_backward

Spec == Init /\ [][Next]_vars

----------------------------------------------------------------------------
(* Running the demo cell again, and restarting the kernel. *)

\* the demo cell again: the same shapes, another draw of torch.randn
Rerun ==
    /\ pc = "idle"
    /\ \E sd \in 1..NumSeeds :
        /\ seed' = sd
        /\ x' = randn(sd, 0, Rows(x), Cols(x))
        /\ W' = [k \in 1..Len(W) |-> randn(sd, 2 * k, Rows(W[k]), Cols(W[k]))]
        /\ b' = [k \in 1..Len(b) |-> randn(sd, 2 * k + 1, Rows(b[k]), Cols(b[k]))]
        /\ y' = randn(sd, 1, Rows(y), Cols(y))
    /\ UNCHANGED <<train, pc, locals, ret, memo>>

\* a kernel restart followed by the cells up to the demo cell: every local
\* and result is gone; only the history variable remembers the earlier run
Restart ==
    /\ pc = "idle"
    /\ L' = 0 /\ l' = 0 /\ a' = <<>> /\ loss' = None
    /\ deltas' = <<>> /\ W_grads' = <<>> /\ b_grads' = <<>>
    /\ ret' = NoRet
    /\ UNCHANGED <<train, inputs, seed, pc, memo>>

\* shape-compatible networks only
InitRerun ==
    /\ \E n \in 1..MaxLayers : \E units \in UnitsOf(n) : \E sd \in 1..NumSeeds :
        Draw(sd, units, [k \in 1..n |-> <<units[k], units[k - 1]>>],
                        [k \in 1..n |-> <<units[k], 1>>])
    /\ Fresh
    /\ memo = NoMemo
    /\ TrainNotStarted

NextRerun == forward_backward \/ Rerun \/ Restart

SpecRerun == InitRerun /\ [][NextRerun]_vars

----------------------------------------------------------------------------
(* The training loop of python/ch8/8.5-training-a-neural-network.ipynb.    *)
(* The network is reduced to one parameter w with y_out = w * X_norm on    *)
(* one sample; numbers are fixed-point, an integer n standing for          *)
(* n / TOne.                                                               *)

\* number of iterations of the loop
num_iters == 3

\* the fixed-point representation of 1.0, the largest normalised value
TOne == 100

\* lr = 0.3 and momentum = 0.9, as fractions
lr == <<3, 10>>
momentum == <<9, 10>>

Scaled(f, v) == RoundDiv(f[1] * v, f[2])

\* values of the normalised sample and of the initial parameter
XNormValues == {TOne \div 2, TOne}
YNormValues == {0, TOne \div 2, TOne}
WInitValues == {-TOne, 0, TOne \div 2, TOne}

\* everything of the other notebook
notebook84 == <<inputs, seed, pc, locals, ret, memo>>

\* nn(X): the forward pass
nn(w_, X) == RoundDiv(w_ * X, TOne)

\* torch.nn.MSELoss
MSELoss(out, target) == RoundDiv((out - target) * (out - target), TOne)

\* d loss / d w, what autograd computes for loss(nn(X), target)
Autograd(out, target, X) == RoundDiv(2 * (out - target) * X, TOne)

\* the five statements of an iteration, in the order of the source
Statements == <<"forward", "loss", "zero_grad", "backward", "step">>

InitTrain ==
    /\ Draw(1, [k \in 0..1 |-> 1], <<<<1, 1>>>>, <<<<1, 1>>>>)
    /\ Fresh
    /\ memo = NoMemo
    /\ X_norm \in XNormValues
    /\ y_norm \in YNormValues
    /\ w \in WInitValues
    /\ grad = Unset /\ buf = Unset
    /\ it = -1 /\ tpc = "loop"
    /\ y_out = 0 /\ mse = 0
    /\ order = <<>> /\ g_i = 0 /\ w_prev = w /\ buf_prev = Unset /\ updates = 0

\* for i in range(num_iters): y_out = nn(X_norm)
t_forward ==
    /\ tpc = "loop"
    /\ it + 1 < num_iters
    /\ it' = it + 1
    /\ y_out' = nn(w, X_norm)
    /\ order' = <<"forward">>
    /\ tpc' = "loss"
    /\ UNCHANGED <<notebook84, X_norm, y_norm, w, grad, buf, mse, g_i, w_prev,
                   buf_prev, updates>>

\* mse_loss = loss(y_out, y_norm)
t_loss ==
    /\ tpc = "loss"
    /\ mse' = MSELoss(y_out, y_norm)
    /\ g_i' = Autograd(y_out, y_norm, X_norm)
    /\ order' = Append(order, "loss")
    /\ tpc' = "zero_grad"
    /\ UNCHANGED <<notebook84, X_norm, y_norm, w, grad, buf, it, y_out, w_prev,
                   buf_prev, updates>>

\* mutant of zero_grad: the gradients are not cleared
zero_grad_forgotten(g) == g

\* optimizer.zero_grad() on one .grad: a gradient that exists is zeroed
zero_grad(g) == IF g.set THEN Holding(0) ELSE g

t_zero_grad ==
    /\ tpc = "zero_grad"
    /\ grad' = zero_grad(grad)
    /\ order' = Append(order, "zero_grad")
    /\ tpc' = "backward"
    /\ UNCHANGED <<notebook84, X_norm, y_norm, w, buf, it, y_out, mse, g_i, w_prev,
                   buf_prev, updates>>

\* backward() on one .grad: the gradient is added to what .grad holds
backward(g, d) == Holding((IF g.set THEN g.v ELSE 0) + d)

\* mse_loss.backward()
t_backward ==
    /\ tpc = "backward"
    /\ grad' = backward(grad, Autograd(y_out, y_norm, X_norm))
    /\ order' = Append(order, "backward")
    /\ tpc' = "step"
    /\ UNCHANGED <<notebook84, X_norm, y_norm, w, buf, it, y_out, mse, g_i, w_prev,
                   buf_prev, updates>>

\* SGD's momentum buffer after a step that sees the gradient d
sgd_buf(bf, d) == Holding(IF bf.set THEN Scaled(momentum, bf.v) + d ELSE d)

\* optimizer.step()
t_step ==
    /\ tpc = "step"
    /\ buf' = sgd_buf(buf, grad.v)
    /\ w' = w - Scaled(lr, buf'.v)
    /\ w_prev' = w
    /\ buf_prev' = buf
    /\ updates' = updates + 1
    /\ order' = Append(order, "step")
    /\ tpc' = "loop"
    /\ UNCHANGED <<notebook84, X_norm, y_norm, grad, it, y_out, mse, g_i>>

\* the loop is over: print(f"Step: {i} Loss: {mse_loss}")
t_exit ==
    /\ tpc = "loop"
    /\ it + 1 >= num_iters
    /\ tpc' = "done"
    /\ UNCHANGED <<notebook84, X_norm, y_norm, w, grad, buf, it, y_out, mse, order,
                   g_i, w_prev, buf_prev, updates>>

NextTrain == t_forward \/ t_loss \/ t_zero_grad \/ t_backward \/ t_step \/ t_exit

SpecTrain == InitTrain /\ [][NextTrain]_vars

----------------------------------------------------------------------------
(* Vocabulary of the properties. *)

\* the last finished call was `kind` and it returned a value
Returned(kind) == ret.kind = kind /\ ~ret.raised

\* W[l] has shape (units_l, units_{l-1}), b[l] has shape (units_l, 1), x is (d, 1)
ShapeCompatible ==
    /\ Cols(x) = 1
    /\ \A k \in 1..Len(W) :
        /\ Cols(W[k]) = (IF k = 1 THEN Rows(x) ELSE Rows(W[k - 1]))
        /\ Shape(b[k]) = <<Rows(W[k]), 1>>

\* the activation that reaches the k-th layer (k = 1 is layer 0): x, or the
\* output of the layers before it
PrevAct(k) == forward(x, SubSeq(W, 1, k - 1), SubSeq(b, 1, k - 1))

\* the k-th layer receives an activation whose rows are not W's columns
InnerMismatch(k) ==
    LET p == PrevAct(k) IN ~p.err /\ Cols(W[k]) # Rows(p)

\* the k-th layer's bias cannot be broadcast against W * a
BiasMismatch(k) ==
    LET p == PrevAct(k)
    IN  /\ ~p.err
        /\ Cols(W[k]) = Rows(p)
        /\ ~Broadcastable(<<Rows(W[k]), Cols(p)>>, Shape(b[k]))

AllZero(t) == \A i \in 1..Rows(t) : \A j \in 1..Cols(t) : t.m[i][j] = 0

----------------------------------------------------------------------------
(* Properties. *)

\* C1: on shape-compatible inputs forward_backward returns, for every layer
\* l, W_grads[l] of the shape of W[l] and b_grads[l] of the shape of b[l].
C1_GradShapes ==
    (Returned("forward_backward") /\ ShapeCompatible) =>
        \A k \in 1..Len(W) :
            /\ Shape(ret.W_grads[k]) = Shape(W[k])
            /\ Shape(ret.b_grads[k]) = Shape(b[k])

\* C2: with at least two layers, W_grads[0] is deltas[0] times the transpose
\* of the input x, and W_grads[l] for l >= 1 is deltas[l] times the
\* transpose of the cached a[l-1].
C2_InputAtLayer0 ==
    (Returned("forward_backward") /\ ShapeCompatible /\ Len(W) >= 2) =>
        /\ ret.W_grads[1] = matmul(deltas[1], T(x))
        /\ \A k \in 2..Len(W) : ret.W_grads[k] = matmul(deltas[k], T(a[k - 1]))

\* C3: for a single layer the returned gradients are the derivatives of the
\* loss: W_grads[0] = delta_0 times transpose(x), one entry per entry of
\* W[0], and b_grads[0] = delta_0 = (a_0 - y) * a_0 * (1 - a_0).
C3_SingleLayerGradient ==
    (Returned("forward_backward") /\ ShapeCompatible /\ Len(W) = 1) =>
        LET a_0 == forward(x, W, b)
            delta_0 == mul(mul(sub(a_0, y), a_0), one_minus(a_0))
        IN  /\ ret.b_grads[1] = delta_0
            /\ ret.W_grads[1] = matmul(delta_0, T(x))
            /\ Shape(ret.W_grads[1]) = Shape(W[1])

\* C4: when at some layer the columns of W[l] differ from the rows of the
\* activation that reaches it, forward raises ShapeMismatch and returns
\* nothing.
C4_InnerMismatchRaises ==
    (ret.kind = "forward" /\ \E k \in 1..Len(W) : InnerMismatch(k)) =>
        ret.raised /\ ret.out = None

C4_Witness ==
    /\ ret.kind = "forward" /\ ret.raised
    /\ \E k \in 2..Len(W) : InnerMismatch(k)

PlainActivations ==
    \A k \in 1..Len(W) : Shape(PrevAct(k + 1)) = <<Rows(W[k]), 1>>

\* C6 as stated: forward_backward raises exactly when forward raises, and
\* returns no loss or gradients when it raises.
C6_SameFailures ==
    ret.kind = "forward_backward" =>
        /\ ret.raised <=> forward(x, W, b).err
        /\ ret.raised => (ret.loss = None /\ ret.W_grads = <<>> /\ ret.b_grads = <<>>)

\* C6 amended: forward_backward raises whenever forward raises and then
\* returns no loss or gradients; when forward accepts the input and every
\* activation a_l has the shape (rows of W[l], 1), the backward sweep raises
\* nothing.
C6_ForwardFailuresOnly ==
    ret.kind = "forward_backward" =>
        /\ forward(x, W, b).err => ret.raised
        /\ ret.raised => (ret.loss = None /\ ret.W_grads = <<>> /\ ret.b_grads = <<>>)
        /\ (~forward(x, W, b).err /\ PlainActivations) => ~ret.raised

C6_Witness ==
    /\ Returned("forward_backward")
    /\ Len(W) >= 2
    /\ PlainActivations
    /\ ~ShapeCompatible

\* C7: on shape-compatible inputs forward returns a vector of shape
\* (units_L, 1), units_L being the rows of the last weight matrix.
C7_OutputShape ==
    (ret.kind = "forward" /\ ShapeCompatible) =>
        /\ ~ret.raised
        /\ Shape(ret.out) = <<Rows(W[Len(W)]), 1>>

C7_Witness ==
    /\ Returned("forward")
    /\ ShapeCompatible
    /\ Len(W) >= 2
    /\ Rows(W[1]) # Rows(W[Len(W)])
    /\ Rows(x) # Rows(W[Len(W)])

\* the call has computed its loss
LossComputed == pc \in {"last", "back"} \/ Returned("forward_backward")

\* C8: every element of the loss is non-negative, and the loss is 0 when the
\* prediction equals the ground truth.
C8_LossNonNegative ==
    LossComputed =>
        /\ \A i \in 1..Rows(loss) : \A j \in 1..Cols(loss) : loss.m[i][j] >= 0
        /\ Index(a, L) = y => AllZero(loss)

C8_Witness ==
    /\ LossComputed
    /\ Index(a, L) = y
    /\ AllZero(loss)

C8_WitnessPositive ==
    LossComputed /\ ~AllZero(loss)

\* C9: a call of forward_backward returns what the first call with the same
\* x, y, W and b returned, whatever was called or restarted in between, and
\* x, y, W and b are still the tensors that were drawn.
C9_Deterministic ==
    /\ x = randn(seed, 0, Rows(x), Cols(x))
    /\ y = randn(seed, 1, Rows(y), Cols(y))
    /\ \A k \in 1..Len(W) :
        /\ W[k] = randn(seed, 2 * k, Rows(W[k]), Cols(W[k]))
        /\ b[k] = randn(seed, 2 * k + 1, Rows(b[k]), Cols(b[k]))
    /\ Returned("forward_backward") => ret = memo[ret.draw]

\* a second call with a draw that was already used, after a call with
\* another draw
C9_Witness ==
    /\ Returned("forward_backward")
    /\ Len(a) >= 2
    /\ \A s \in 1..NumSeeds : memo[s] # NoRet
    /\ \E s \in 1..NumSeeds : memo[s].loss # ret.loss

\* the forward sweep of forward_backward is over
SweepDone == (pc = "sweep" /\ l > L) \/ pc \in {"last", "back"}

\* C10: after the forward sweep the cache holds L + 1 activations, a[0]
\* computed from x, each a[l] from a[l-1], and a[L] equal to forward(x, W, b).
C10_SweepIsForward ==
    SweepDone =>
        /\ Len(a) = L + 1
        /\ a[1] = A(Z(x, W[1], b[1]))
        /\ \A k \in 2..Len(a) : a[k] = A(Z(a[k - 1], W[k], b[k]))
        /\ Index(a, L) = forward(x, W, b)

C10_Witness ==
    /\ SweepDone
    /\ Len(a) >= 2
    /\ a[2] # A(Z(x, W[2], b[2]))

\* the statements run so far in this iteration are the first ones of
\* forward, loss, zero_grad, backward, step, and all five once it is over
InSourceOrder ==
    /\ Len(order) <= Len(Statements)
    /\ order = SubSeq(Statements, 1, Len(order))
    /\ (tpc \in {"loop", "done"} /\ updates > 0) => order = Statements

\* the .grad that optimizer.step() reads is the gradient of this iteration's loss
GradIsThisIteration == tpc = "step" => grad = Holding(g_i)

\* one update per iteration, num_iters of them in the end
OneUpdatePerIteration ==
    /\ tpc = "loop" => updates = it + 1
    /\ tpc \in {"loss", "zero_grad", "backward", "step"} => updates = it
    /\ tpc = "done" => updates = num_iters

\* an update has just been made
Updated == tpc \in {"loop", "done"} /\ updates > 0

\* C11 as stated: every iteration runs forward, loss, zero_grad, backward,
\* step in this order, the gradients are cleared before every backward, the
\* update of iteration i uses only the gradient of iteration i's loss, and
\* there is exactly one update per iteration for num_iters iterations.
C11_UpdateFromOwnGradientOnly ==
    /\ InSourceOrder
    /\ GradIsThisIteration
    /\ OneUpdatePerIteration
    /\ Updated => w = w_prev - Scaled(lr, g_i)

\* C11 amended: the order and the count are as stated and the .grad that
\* step reads is only the gradient of iteration i's loss; the update itself
\* subtracts lr times the momentum buffer, which is that gradient plus 0.9
\* times the buffer of the earlier iterations.
C11_OrderedMomentumUpdate ==
    /\ InSourceOrder
    /\ GradIsThisIteration
    /\ OneUpdatePerIteration
    /\ Updated =>
        w = w_prev - Scaled(lr, IF buf_prev.set
                                THEN Scaled(momentum, buf_prev.v) + g_i
                                ELSE g_i)

C11_Witness ==
    /\ Updated
    /\ updates >= 2
    /\ buf_prev.set /\ buf_prev.v # 0
    /\ g_i # 0
    /\ w # w_prev - Scaled(lr, g_i)

====
